---- MODULE Spec2Model ----
(***************************************************************************)
(* Med-RAG document question answering server (single-tenant server with   *)
(* the in-memory / Pinecone vector store, and the shared pieces of the     *)
(* per-user server).  Requests are handlers that run to their next await   *)
(* on Node's single thread; every action below is one such segment.        *)
(*                                                                         *)
(* Texts are sequences of character codes.  Document ids are the integers  *)
(* that String(nextDocumentId++) prints; String is injective on them.      *)
(* An embedding keeps its length and a short prefix of its components;     *)
(* cosine similarity is kept as the exact fraction sign(dot)*dot^2 /       *)
(* (normA*normB), which orders vectors exactly as dot/(sqrt*sqrt) does.    *)
(***************************************************************************)
EXTENDS Integers, Sequences, FiniteSets, TLC

\* ------------------------------------------------------------------ bounds
MaxUploads == 2      \* upload requests in one behaviour
MaxQueries == 2      \* answered queries in one behaviour of SpecQuery and SpecPinecone
MaxAppends == 52     \* history records appended in one behaviour of SpecLedger
MaxListed == 12      \* history records appended in one behaviour of SpecHistory
MaxAnswered == 1     \* history records appended in one behaviour of SpecStructure and SpecSettings
MaxK == 3            \* largest k asked of the vector store directly
VecLen == 2          \* components kept of each embedding
MaxUserUploads == 2  \* uploads to the per-user server in one behaviour

\* --------------------------------------------------------- program constants
EmbeddingDim == 384
TopK == 5
HistoryCap == 50
ListLimit == 10

\* null is the empty option, a present value x is Some(x); undefined is UNDEF
\* for a field that holds one of a few words and Missing for a text field
NULL == <<>>
Some(x) == <<x>>
UNDEF == "undefined"
Missing == <<-100>>

\* ------------------------------------------------------------------- texts
Aa == <<65, 97>>
BB == <<66, 66>>
Fee == <<102, 101, 101>>
Empty == <<>>

ChunkTexts == {Aa, BB, Fee}
\* a document is given by the chunks the splitter cuts it into
DocChoices == {<<Aa>>, <<BB, Fee>>}
QueryTexts == {Aa, Fee, Empty}

\* "5 year pune", "3month knee", "2year 7month"
FiveYearPune == <<53, 32, 121, 101, 97, 114, 32, 112, 117, 110, 101>>
ThreeMonthKnee == <<51, 109, 111, 110, 116, 104, 32, 107, 110, 101, 101>>
TwoYearSevenMonth == <<50, 121, 101, 97, 114, 32, 55, 109, 111, 110, 116, 104>>
StructureTexts == {FiveYearPune, ThreeMonthKnee, TwoYearSevenMonth, Fee, Empty}

\* ------------------------------------------------------------- embedQuery
\* 16-bit limbs keep the 32-bit hash inside the checker's integers
Limb == 65536

\* a = ((a << 5) - a) + c; a & a   on a 32-bit value <<hi, lo>>
HashStep(h, c) ==
  LET lo == 31 * h[2] + c
  IN  <<(31 * h[1] + (lo \div Limb)) % Limb, lo % Limb>>

RECURSIVE HashFrom(_, _)
HashFrom(h, text) ==
  IF text = <<>> THEN h ELSE HashFrom(HashStep(h, Head(text)), Tail(text))

HashOf(text) == HashFrom(<<0, 0>>, text)

\* integer stand-in for Math.sin(n) * 0.1: a sine wave sampled at period 8
WaveTable == <<0, 2, 3, 2, 0, -2, -3, -2>>
Wave(h, i) == WaveTable[(((h[2] % 8) + i) % 8) + 1]

FallbackEmbedding(text) ==
  [length |-> EmbeddingDim,
   comps |-> [i \in 1..VecLen |-> Wave(HashOf(text), i - 1)]]

RECURSIVE CharSum(_)
CharSum(text) == IF text = <<>> THEN 0 ELSE Head(text) + CharSum(Tail(text))

\* a pipeline of a model with twice as many dimensions
Mutant_ModelEmbedding(text) ==
  [length |-> 2 * EmbeddingDim,
   comps |-> [i \in 1..VecLen |-> ((CharSum(text) + 3 * i * Len(text)) % 7) - 3 + (IF i = 1 THEN 4 ELSE 0)]]

\* the MiniLM pipeline: some fixed vector per text, different from the fallback
ModelEmbedding(text) ==
  [length |-> EmbeddingDim,
   comps |-> [i \in 1..VecLen |-> ((CharSum(text) + 3 * i * Len(text)) % 7) - 3 + (IF i = 1 THEN 4 ELSE 0)]]

\* a provider that hands the failure of the model on: nothing comes back
Mutant_embedQuery(text, modelOk) ==
  IF modelOk THEN ModelEmbedding(text) ELSE [length |-> 0, comps |-> <<>>]

\* modelOk: the embedder is loaded and does not throw on this call
embedQuery(text, modelOk) ==
  IF modelOk THEN ModelEmbedding(text) ELSE FallbackEmbedding(text)

\* ------------------------------------------------------- cosineSimilarity
RECURSIVE Dot(_, _)
Dot(a, b) == IF a = <<>> THEN 0 ELSE Head(a) * Head(b) + Dot(Tail(a), Tail(b))

Zero == [n |-> 0, d |-> 1]

\* the same function without the test of the norms
Mutant_cosineSimilarity(vecA, vecB) ==
  LET isArray(v) == "comps" \in DOMAIN v
  IN  IF ~isArray(vecA) \/ ~isArray(vecB) \/ vecA.length # vecB.length THEN Zero
      ELSE LET dotProduct == Dot(vecA.comps, vecB.comps)
               normA == Dot(vecA.comps, vecA.comps)
               normB == Dot(vecB.comps, vecB.comps)
           IN  [n |-> (IF dotProduct < 0 THEN -1 ELSE 1) * dotProduct * dotProduct,
                d |-> normA * normB]

\* the similarity as the exact fraction n / d of the squares, with the sign
\* of the dot product kept in n; a value is an array when it has components,
\* any other value is a record of its typeof alone
cosineSimilarity(vecA, vecB) ==
  LET isArray(v) == "comps" \in DOMAIN v
  IN  IF ~isArray(vecA) \/ ~isArray(vecB) \/ vecA.length # vecB.length THEN Zero
      ELSE LET dotProduct == Dot(vecA.comps, vecB.comps)
               normA == Dot(vecA.comps, vecA.comps)
               normB == Dot(vecB.comps, vecB.comps)
           IN  IF normA = 0 \/ normB = 0 THEN Zero
               ELSE [n |-> (IF dotProduct < 0 THEN -1 ELSE 1) * dotProduct * dotProduct,
                     d |-> normA * normB]

\* b.similarity - a.similarity < 0, the comparator of the sort
Greater(s, t) == s.n * t.d > t.n * s.d

\* Array.prototype.sort is stable: an entry goes behind every entry that is
\* not strictly less similar
RECURSIVE InsertDesc(_, _)
\* an insertion that goes in front of the entries that are equally similar
Mutant_InsertDesc(sorted, e) ==
  IF sorted = <<>> THEN <<e>>
  ELSE IF ~Greater(Head(sorted).similarity, e.similarity) THEN <<e>> \o sorted
       ELSE <<Head(sorted)>> \o InsertDesc(Tail(sorted), e)

InsertDesc(sorted, e) ==
  IF sorted = <<>> THEN <<e>>
  ELSE IF Greater(e.similarity, Head(sorted).similarity) THEN <<e>> \o sorted
       ELSE <<Head(sorted)>> \o InsertDesc(Tail(sorted), e)

RECURSIVE SortDesc(_)
SortDesc(s) ==
  IF s = <<>> THEN <<>> ELSE InsertDesc(SortDesc(SubSeq(s, 1, Len(s) - 1)), s[Len(s)])

Slice(s, k) == SubSeq(s, 1, IF k < Len(s) THEN k ELSE Len(s))

\* in-memory similaritySearch over the array `index`
similaritySearch(index, query, k, modelOk) ==
  LET queryEmbedding == embedQuery(query, modelOk)
      similarities == [i \in 1..Len(index) |->
                         [content |-> index[i].content, metadata |-> index[i].metadata,
                          similarity |-> cosineSimilarity(queryEmbedding, index[i].embedding)]]
      top == Slice(SortDesc(similarities), k)
  IN  [i \in 1..Len(top) |-> [pageContent |-> top[i].content, metadata |-> top[i].metadata]]

\* ----------------------------------------------------------- string helpers
Undefined == <<117, 110, 100, 101, 102, 105, 110, 101, 100>>
Ok == <<111, 107>>
FiveDollarFee == <<36, 53, 32, 102, 101, 101>>
SevenINR == <<55, 32, 73, 78, 82>>
Because == <<114>>

toLowerCase(s) == [i \in 1..Len(s) |-> IF s[i] \in 65..90 THEN s[i] + 32 ELSE s[i]]

includes(s, sub) ==
  \E i \in 1..(Len(s) + 1) : i + Len(sub) - 1 <= Len(s) /\ SubSeq(s, i, i + Len(sub) - 1) = sub

IsSpace(c) == c \in {9, 10, 11, 12, 13, 32}
IsDigit(c) == c \in 48..57
IsWord(c) == c \in (48..57) \cup (65..90) \cup (97..122) \cup {95}

\* context.trim().length === 0
IsBlank(s) == \A i \in 1..Len(s) : IsSpace(s[i])

RECURSIVE Join(_, _)
Join(texts, sep) ==
  IF texts = <<>> THEN <<>>
  ELSE IF Len(texts) = 1 THEN texts[1]
       ELSE texts[1] \o sep \o Join(Tail(texts), sep)

\* String(x) inside a concatenation
Str(x) == IF x = Missing THEN Undefined ELSE x

moneyKeywords ==
  {<<97, 109, 111, 117, 110, 116>>,
   <<99, 111, 115, 116>>,
   <<112, 114, 105, 99, 101>>,
   <<102, 101, 101>>,
   <<112, 97, 121, 111, 117, 116>>,
   <<99, 111, 118, 101, 114, 97, 103, 101>>,
   <<108, 105, 109, 105, 116>>,
   <<109, 97, 120, 105, 109, 117, 109>>,
   <<109, 105, 110, 105, 109, 117, 109>>,
   <<112, 97, 121>>,
   <<112, 97, 105, 100>>,
   <<112, 97, 121, 109, 101, 110, 116>>,
   <<99, 108, 97, 105, 109, 32, 97, 109, 111, 117, 110, 116>>,
   <<98, 101, 110, 101, 102, 105, 116, 32, 97, 109, 111, 117, 110, 116>>,
   <<115, 117, 109, 32, 105, 110, 115, 117, 114, 101, 100>>,
   <<100, 101, 100, 117, 99, 116, 105, 98, 108, 101>>,
   <<112, 114, 101, 109, 105, 117, 109>>}

isMoneyQuestion(query) == \E keyword \in moneyKeywords : includes(toLowerCase(query), keyword)

\* ---------------------------------------------------------- amount regex
\* /\$[\d,]+|₹[\d,]+|\b\d+[\d,]*\s*(?:dollars?|rupees?|USD|INR)\b/i
Dollar == 36
Rupee == 8377
Comma == 44

\* last index of the longest run of characters of class C that starts at p
\* (p - 1 when s[p] is not in C)
RECURSIVE RunEnd(_, _, _)
RunEnd(s, p, C) ==
  IF p <= Len(s) /\ s[p] \in C THEN RunEnd(s, p + 1, C) ELSE p - 1

DigitComma == (48..57) \cup {Comma}
Spaces == {9, 10, 11, 12, 13, 32}

Units ==
  <<<<100, 111, 108, 108, 97, 114, 115>>, <<100, 111, 108, 108, 97, 114>>,
    <<114, 117, 112, 101, 101, 115>>, <<114, 117, 112, 101, 101>>,
    <<117, 115, 100>>, <<105, 110, 114>>>>

\* the unit word at p, followed by a word boundary: index of its last
\* character, 0 if none of the alternatives matches
UnitEnd(s, p) ==
  LET fits(u) == /\ p + Len(u) - 1 <= Len(s)
                 /\ toLowerCase(SubSeq(s, p, p + Len(u) - 1)) = u
                 /\ (p + Len(u) > Len(s) \/ ~IsWord(s[p + Len(u)]))
      hits == {i \in 1..Len(Units) : fits(Units[i])}
  IN  IF hits = {} THEN 0
      ELSE LET first == CHOOSE i \in hits : \A j \in hits : i <= j
           IN  p + Len(Units[first]) - 1

\* end of the match that starts at p, 0 if there is none
MatchAt(s, p) ==
  IF s[p] \in {Dollar, Rupee}
  THEN IF p + 1 <= Len(s) /\ s[p + 1] \in DigitComma THEN RunEnd(s, p + 1, DigitComma) ELSE 0
  ELSE IF IsDigit(s[p]) /\ (p = 1 \/ ~IsWord(s[p - 1]))
       THEN UnitEnd(s, RunEnd(s, RunEnd(s, p, DigitComma) + 1, Spaces) + 1)
       ELSE 0

\* String.prototype.match without the g flag: the leftmost match, or NULL
amountMatch(s) ==
  LET starts == {p \in 1..Len(s) : MatchAt(s, p) # 0}
  IN  IF starts = {} THEN NULL
      ELSE LET p == CHOOSE q \in starts : \A r \in starts : q <= r
           IN  SubSeq(s, p, MatchAt(s, p))

\* .replace(/[$,₹]/g, '').replace(/[^\d]/g, '')
RECURSIVE DigitsOf(_)
DigitsOf(s) ==
  IF s = <<>> THEN <<>>
  ELSE IF IsDigit(Head(s)) THEN <<Head(s)>> \o DigitsOf(Tail(s)) ELSE DigitsOf(Tail(s))

\* parseInt(amountStr) || null
RECURSIVE DecimalValue(_, _)
DecimalValue(acc, digits) ==
  IF digits = <<>> THEN acc ELSE DecimalValue(10 * acc + (Head(digits) - 48), Tail(digits))

parseIntOrNull(amountStr) ==
  IF amountStr = <<>> \/ DecimalValue(0, amountStr) = 0 THEN NULL ELSE Some(DecimalValue(0, amountStr))

\* an extraction that does not ask whether the query is about money
Mutant_extractAmount(query, answer, reasoning) ==
  LET m == amountMatch(Str(answer) \o <<32>> \o Str(reasoning))
  IN  IF m = NULL THEN NULL ELSE parseIntOrNull(DigitsOf(m))

extractAmount(query, answer, reasoning) ==
  IF isMoneyQuestion(query)
  THEN LET m == amountMatch(Str(answer) \o <<32>> \o Str(reasoning))
       IN  IF m = NULL THEN NULL ELSE parseIntOrNull(DigitsOf(m))
  ELSE NULL

\* ----------------------------------------------------- basicHeuristicParse
mumbai == <<109, 117, 109, 98, 97, 105>>
delhi == <<100, 101, 108, 104, 105>>
bangalore == <<98, 97, 110, 103, 97, 108, 111, 114, 101>>
kolkata == <<107, 111, 108, 107, 97, 116, 97>>
chennai == <<99, 104, 101, 110, 110, 97, 105>>
pune == <<112, 117, 110, 101>>
Mumbai == <<77, 117, 109, 98, 97, 105>>

\* the numbers of a StructuredQuery are kept in tenths (see evaluatePolicyLogic)
Tenths == 10

\* parseInt(query.match(/\d+/g)[0], 10): the first run of digits, NULL if
\* the query has no digit
firstNumber(query) ==
  LET at == {p \in 1..Len(query) : IsDigit(query[p])}
  IN  IF at = {} THEN NULL
      ELSE LET p == CHOOSE q \in at : \A r \in at : q <= r
           IN  Some(Tenths * DecimalValue(0, SubSeq(query, p, RunEnd(query, p, 48..57))))

locations == <<mumbai, delhi, bangalore, kolkata, chennai, pune>>

\* locations.find(l => lower.includes(l)) || null
findLocation(lower) ==
  LET hits == {i \in 1..Len(locations) : includes(lower, locations[i])}
  IN  IF hits = {} THEN NULL ELSE locations[CHOOSE i \in hits : \A j \in hits : i <= j]

basicHeuristicParse(query) ==
  LET lower == toLowerCase(query)
      first == firstNumber(query)
      has(word) == includes(lower, word)
  IN  [ageYears |-> IF has(<<121, 101, 97, 114>>) THEN first ELSE NULL,                \* 'year'
       ageMonths |-> NULL,
       procedure |->
         IF has(<<107, 110, 101, 101>>)                                                \* 'knee'
         THEN <<107, 110, 101, 101, 32, 115, 117, 114, 103, 101, 114, 121>>              \* 'knee surgery'
         ELSE IF has(<<104, 105, 112>>)                                                \* 'hip'
         THEN <<104, 105, 112, 32, 115, 117, 114, 103, 101, 114, 121>>              \* 'hip surgery'
         ELSE IF has(<<115, 117, 114, 103, 101, 114, 121>>)                           \* 'surgery'
         THEN <<115, 117, 114, 103, 101, 114, 121>>
         ELSE NULL,
       location |-> findLocation(lower),
       policyAgeMonths |-> IF has(<<109, 111, 110, 116, 104>>) THEN first ELSE NULL]    \* 'month'

\* what the parser call can come back with: a failure, JSON null, or a JSON
\* object; Absent marks a key the object does not have
Absent == <<-101>>
NoParsed ==
  [ageYears |-> Absent, ageMonths |-> Absent, procedure |-> Absent, location |-> Absent,
   policyAgeMonths |-> Absent]
ParserFailures == {"http_error", "timeout", "no_candidates", "not_json"}
ParsedObjects ==
  {[NoParsed EXCEPT !.ageYears = a, !.location = l] : a \in {Absent, NULL, <<300>>},
                                                      l \in {Absent, delhi}}
ParserOutcomes ==
  [kind : ParserFailures \cup {"json_null"}, parsed : {NoParsed}]
    \cup [kind : {"object"}, parsed : ParsedObjects]
\* the parser call times out
ParserDown == {[kind |-> "timeout", parsed |-> NoParsed]}

\* a parser whose catch throws the heuristic result away
Mutant_mergeStructured(structured, outcome) ==
  IF outcome.kind \in ParserFailures THEN [f \in DOMAIN structured |-> NULL]
  ELSE [f \in DOMAIN structured |->
          IF outcome.parsed[f] = Absent THEN structured[f] ELSE outcome.parsed[f]]

\* try { structured = { ...structured, ...parsed } } catch (e) { }
mergeStructured(structured, outcome) ==
  IF outcome.kind \in ParserFailures THEN structured
  ELSE [f \in DOMAIN structured |->
          IF outcome.parsed[f] = Absent THEN structured[f] ELSE outcome.parsed[f]]

\* ------------------------------------------------------------------- state
VARIABLES
  backend,            \* "memory" or "pinecone": pineconeIndex is set or not
  embedder,           \* TRUE when the MiniLM pipeline loaded
  indexedDocuments,   \* the in-memory index
  pineconeVectors,    \* what the remote index holds
  documentRegistry,
  nextDocumentId,
  files,              \* upload requests whose file is in the uploads directory
  retrievalSettings,
  queryHistory,
  uploads,            \* the upload requests, by request number
  query,              \* the process-query request in flight
  numAppends,         \* records ever pushed on queryHistory
  deleteReply,        \* the last DELETE /documents/:id and its response
  deleted,            \* ids whose delete answered success
  settingsReply,      \* the last POST /retrieval-settings: its body and its reply
  historyReply,       \* the last reply of GET or POST /query-history
  probe,              \* the last direct similaritySearch call on the store
  policy,             \* a StructuredQuery and what evaluatePolicyLogic made of it
  cosine,             \* the last direct call of cosineSimilarity
  documents,          \* per-user server: the rows of the documents table
  userUpload,         \* per-user server: the upload that is indexing, if any
  userQuery           \* per-user server: the query request in flight

vars == <<backend, embedder, indexedDocuments, pineconeVectors, documentRegistry,
          nextDocumentId, files, retrievalSettings, queryHistory, uploads, query,
          numAppends, deleteReply, deleted, settingsReply, historyReply,
          probe, policy, cosine, documents, userUpload, userQuery>>

storeVars == <<indexedDocuments, pineconeVectors, documentRegistry, nextDocumentId, files>>
configVars == <<backend, embedder>>
userVars == <<documents, userUpload, userQuery>>
callVars == <<cosine, userVars>>
ghostReplies == <<deleteReply, deleted, settingsReply, historyReply, probe, policy, callVars>>
ledgerVars == <<queryHistory, numAppends>>

Requests == 1..MaxUploads
DocIds == 1..MaxUploads

\* threw names the call of the handler that threw, if one did
IdleUpload ==
  [pc |-> "idle", doc |-> <<>>, docId |-> 0, next |-> 0, vectors |-> <<>>, result |-> "none",
   threw |-> "none"]
NoResponse ==
  [status |-> 0, body |-> "none", error |-> UNDEF, answer |-> Missing, decision |-> UNDEF,
   reasoning |-> Missing, Decision |-> UNDEF, Amount |-> NULL, Justification |-> Missing]
NoOutcome == [kind |-> "none", answer |-> Missing, decision |-> UNDEF, reasoning |-> Missing]
\* allowed: retrievalSettings.allowedDocIds when the search ran; llm: what the
\* answer call came back with; threw: the call that threw out of the handler
NoHistoryReply == [op |-> "none", status |-> 0, error |-> UNDEF, records |-> <<>>]
NoStructured ==
  [ageYears |-> NULL, ageMonths |-> NULL, procedure |-> NULL, location |-> NULL,
   policyAgeMonths |-> NULL]
\* structured: the StructuredQuery of the request; parser: how the parser call
\* ended; parsed: the object it answered with
IdleQuery ==
  [pc |-> "idle", text |-> <<>>, structured |-> NoStructured, parser |-> "none",
   parsed |-> NoParsed, allowed |-> NULL, context |-> <<>>, llmCalls |-> 0,
   llm |-> NoOutcome, threw |-> "none", response |-> NoResponse]

\* the state once startServer has finished with an empty uploads directory
InitWith(b) ==
  /\ backend = b
  /\ embedder \in BOOLEAN
  /\ indexedDocuments = <<>>
  /\ pineconeVectors = <<>>
  /\ documentRegistry = <<>>
  /\ nextDocumentId = 1
  /\ files = {}
  /\ retrievalSettings = [includeSystemDocuments |-> TRUE, allowedDocIds |-> NULL]
  /\ queryHistory = <<>>
  /\ uploads = [r \in Requests |-> IdleUpload]
  /\ query = IdleQuery
  /\ numAppends = 0
  /\ deleteReply = [id |-> 0, status |-> 0]
  /\ deleted = {}
  /\ settingsReply = NULL
  /\ historyReply = NoHistoryReply
  /\ probe = NULL
  /\ policy = NULL
  /\ cosine = NULL
  /\ documents = <<>>
  /\ userUpload = NULL
  /\ userQuery = NULL

Init == InitWith("memory")
\* the embedding model failed to load
InitIngest == Init /\ ~embedder
InitPineconeFallback == InitWith("pinecone") /\ ~embedder

RegistryIds == {documentRegistry[i].id : i \in 1..Len(documentRegistry)}

\* one entry of the index for chunk number `loc` of document docId
IndexEntry(docId, loc, text, modelOk) ==
  [content |-> text, embedding |-> embedQuery(text, modelOk),
   metadata |-> [docId |-> docId, loc |-> loc, isSystemDocument |-> FALSE]]

\* the state once startServer has finished when the uploads directory held
\* two files: initializeRAG registers and indexes them one after the other
StartupDocs == <<<<Aa, BB>>, <<Fee>>>>
StartupChunks == <<[docId |-> 1, loc |-> 1], [docId |-> 1, loc |-> 2], [docId |-> 2, loc |-> 1]>>

InitLoaded ==
  /\ backend = "memory"
  /\ embedder \in BOOLEAN
  /\ \E oks \in [1..Len(StartupChunks) -> BOOLEAN] :
        /\ (embedder \/ \A i \in 1..Len(StartupChunks) : oks[i])
        /\ indexedDocuments =
             [i \in 1..Len(StartupChunks) |->
                IndexEntry(StartupChunks[i].docId, StartupChunks[i].loc,
                           StartupDocs[StartupChunks[i].docId][StartupChunks[i].loc],
                           embedder /\ oks[i])]
  /\ pineconeVectors = <<>>
  /\ documentRegistry = [d \in 1..Len(StartupDocs) |->
                           [id |-> d, path |-> 0 - d, isSystemDocument |-> FALSE]]
  /\ nextDocumentId = Len(StartupDocs) + 1
  /\ files = {0 - d : d \in 1..Len(StartupDocs)}
  /\ retrievalSettings = [includeSystemDocuments |-> TRUE, allowedDocIds |-> NULL]
  /\ queryHistory = <<>>
  /\ uploads = [r \in Requests |-> IdleUpload]
  /\ query = IdleQuery
  /\ numAppends = 0
  /\ deleteReply = [id |-> 0, status |-> 0]
  /\ deleted = {}
  /\ settingsReply = NULL
  /\ historyReply = NoHistoryReply
  /\ probe = NULL
  /\ policy = NULL
  /\ cosine = NULL
  /\ documents = <<>>
  /\ userUpload = NULL
  /\ userQuery = NULL

\* --------------------------------------------------- POST /upload-document
\* multer has stored the file; the handler awaits extractTextFromFile
UploadStart(r, doc) ==
  /\ uploads[r].pc = "idle"
  /\ \A o \in Requests : o < r => uploads[o].pc # "idle"
  /\ uploads' = [uploads EXCEPT ![r] = [@ EXCEPT !.pc = "extract", !.doc = doc]]
  /\ files' = files \cup {r}
  /\ UNCHANGED <<configVars, indexedDocuments, pineconeVectors, documentRegistry, nextDocumentId,
                 retrievalSettings, ledgerVars, query, ghostReplies>>

\* extraction returns or throws; on return the registry entry is pushed and
\* the handler awaits textSplitter.splitDocuments
UploadExtract(r, ok) ==
  /\ uploads[r].pc = "extract"
  /\ IF ok
     THEN /\ nextDocumentId' = nextDocumentId + 1
          /\ documentRegistry' = Append(documentRegistry,
                 [id |-> nextDocumentId, path |-> r, isSystemDocument |-> FALSE])
          /\ uploads' = [uploads EXCEPT ![r] = [@ EXCEPT !.pc = "split", !.docId = nextDocumentId]]
     ELSE /\ uploads' = [uploads EXCEPT ![r] = [@ EXCEPT !.pc = "done", !.result = "400 parse",
                                                          !.threw = "extractTextFromFile"]]
          /\ UNCHANGED <<nextDocumentId, documentRegistry>>
  /\ UNCHANGED <<configVars, indexedDocuments, pineconeVectors, files,
                 retrievalSettings, ledgerVars, query, ghostReplies>>

\* splitDocuments returns the chunks or throws; addDocuments starts and
\* awaits the embedding of the first chunk
UploadSplit(r, ok) ==
  /\ uploads[r].pc = "split"
  /\ uploads' = [uploads EXCEPT ![r] =
        IF ~ok THEN [@ EXCEPT !.pc = "done", !.result = "500 upload", !.threw = "splitDocuments"]
        ELSE IF @.doc = <<>> THEN [@ EXCEPT !.pc = "done", !.result = "id"]
        ELSE [@ EXCEPT !.pc = "embed", !.next = 1]]
  /\ UNCHANGED <<configVars, storeVars, retrievalSettings, ledgerVars, query,
                 ghostReplies>>

\* a loop that puts each entry in front of the index
Mutant_UploadEmbed(r, ok) ==
  /\ uploads[r].pc = "embed"
  /\ LET u == uploads[r]
         entry == IndexEntry(u.docId, u.next, u.doc[u.next], embedder /\ ok)
         last == u.next = Len(u.doc)
     IN  IF backend = "memory"
         THEN /\ indexedDocuments' = <<entry>> \o indexedDocuments
              /\ uploads' = [uploads EXCEPT ![r] =
                    IF last THEN [@ EXCEPT !.pc = "done", !.result = "id"]
                    ELSE [@ EXCEPT !.next = @ + 1]]
         ELSE /\ UNCHANGED indexedDocuments
              /\ uploads' = [uploads EXCEPT ![r] =
                    IF last THEN [@ EXCEPT !.pc = "upsert", !.vectors = Append(@, entry)]
                    ELSE [@ EXCEPT !.next = @ + 1, !.vectors = Append(@, entry)]]
  /\ (ok \/ embedder)
  /\ UNCHANGED <<configVars, pineconeVectors, documentRegistry, nextDocumentId, files,
                 retrievalSettings, ledgerVars, query, ghostReplies>>

\* one turn of the loop of addDocuments: the embedding of chunk `next` is
\* back, the entry is pushed, the next embedding is awaited or the loop ends
UploadEmbed(r, ok) ==
  /\ uploads[r].pc = "embed"
  /\ LET u == uploads[r]
         entry == IndexEntry(u.docId, u.next, u.doc[u.next], embedder /\ ok)
         last == u.next = Len(u.doc)
     IN  IF backend = "memory"
         THEN /\ indexedDocuments' = Append(indexedDocuments, entry)
              /\ uploads' = [uploads EXCEPT ![r] =
                    IF last THEN [@ EXCEPT !.pc = "done", !.result = "id"]
                    ELSE [@ EXCEPT !.next = @ + 1]]
         ELSE /\ UNCHANGED indexedDocuments
              /\ uploads' = [uploads EXCEPT ![r] =
                    IF last THEN [@ EXCEPT !.pc = "upsert", !.vectors = Append(@, entry)]
                    ELSE [@ EXCEPT !.next = @ + 1, !.vectors = Append(@, entry)]]
  /\ (ok \/ embedder)
  /\ UNCHANGED <<configVars, pineconeVectors, documentRegistry, nextDocumentId, files,
                 retrievalSettings, ledgerVars, query, ghostReplies>>

\* pineconeIndex.upsert(vectors) returns or throws
UploadUpsert(r, ok) ==
  /\ uploads[r].pc = "upsert"
  /\ IF ok
     THEN /\ pineconeVectors' = pineconeVectors \o uploads[r].vectors
          /\ uploads' = [uploads EXCEPT ![r] = [@ EXCEPT !.pc = "done", !.result = "id"]]
     ELSE /\ UNCHANGED pineconeVectors
          /\ uploads' = [uploads EXCEPT ![r] = [@ EXCEPT !.pc = "done", !.result = "500 upload",
                                                          !.threw = "upsert"]]
  /\ UNCHANGED <<configVars, indexedDocuments, documentRegistry, nextDocumentId, files,
                 retrievalSettings, ledgerVars, query, ghostReplies>>

\* ------------------------------------------------- DELETE /documents/:id
\* a delete that cuts the array at the first chunk of the document
Mutant_KeepOthers(index, id) ==
  LET hits == {i \in 1..Len(index) : index[i].metadata.docId = id}
  IN  IF hits = {} THEN index
      ELSE SubSeq(index, 1, (CHOOSE i \in hits : \A j \in hits : i <= j) - 1)

\* indexedDocuments.filter(d => d.metadata?.docId !== id)
KeepOthers(index, id) == SelectSeq(index, LAMBDA d : d.metadata.docId # id)

\* documentRegistry.splice(index, 1); index -1 takes the last element
splice(registry, index) ==
  LET at == IF index = -1 THEN Len(registry) ELSE index
  IN  SubSeq(registry, 1, at - 1) \o SubSeq(registry, at + 1, Len(registry))

\* documentRegistry.findIndex(d => d.id === id)
findIndex(registry, id) ==
  LET found == {i \in 1..Len(registry) : registry[i].id = id}
  IN  IF found = {} THEN -1 ELSE CHOOSE i \in found : \A j \in found : i <= j

\* a delete that splices before it looks at the result of findIndex
Mutant_Delete(id) ==
  LET index == findIndex(documentRegistry, id)
  IN  /\ documentRegistry' = splice(documentRegistry, index)
      /\ deleteReply' = [id |-> id, status |-> IF index = -1 THEN 404 ELSE 200]
      /\ deleted' = IF index = -1 THEN deleted ELSE deleted \cup {id}
      /\ indexedDocuments' = IF index = -1 THEN indexedDocuments ELSE KeepOthers(indexedDocuments, id)
      /\ files' = IF index = -1 THEN files ELSE files \ {documentRegistry[index].path}
      /\ UNCHANGED <<configVars, pineconeVectors, nextDocumentId, retrievalSettings,
                     ledgerVars, uploads, query, settingsReply, historyReply, probe, policy, callVars>>

Delete(id) ==
  LET index == findIndex(documentRegistry, id)
  IN  IF index = -1
      THEN /\ deleteReply' = [id |-> id, status |-> 404]
           /\ UNCHANGED <<configVars, storeVars, retrievalSettings, ledgerVars, uploads, query,
                          deleted, settingsReply, historyReply, probe, policy, callVars>>
      ELSE IF documentRegistry[index].isSystemDocument
      THEN /\ deleteReply' = [id |-> id, status |-> 400]
           /\ UNCHANGED <<configVars, storeVars, retrievalSettings, ledgerVars, uploads, query,
                          deleted, settingsReply, historyReply, probe, policy, callVars>>
      ELSE /\ files' = files \ {documentRegistry[index].path}
           /\ documentRegistry' = splice(documentRegistry, index)
           /\ indexedDocuments' = KeepOthers(indexedDocuments, id)
           /\ deleteReply' = [id |-> id, status |-> 200]
           /\ deleted' = deleted \cup {id}
           /\ UNCHANGED <<configVars, pineconeVectors, nextDocumentId, retrievalSettings,
                          ledgerVars, uploads, query, settingsReply, historyReply, probe, policy, callVars>>

\* ----------------------------------------------- POST /retrieval-settings
\* body fields: includeSystemDocuments is a boolean, absent (UNDEF) or
\* something else; allowedDocIds is an array (the sequence of its elements),
\* null, absent or something else
SettingsBodies ==
  [includeSystemDocuments : {"true", "false", UNDEF, "other"},
   allowedDocIds : [kind : {UNDEF, "null", "other"}, ids : {<<>>}]
                   \cup [kind : {"array"}, ids : {<<>>, <<1, 1>>} \cup {<<id>> : id \in DocIds}]]
\* the bodies that only set or clear the list of allowed documents
ScopeBodies ==
  [includeSystemDocuments : {UNDEF},
   allowedDocIds : [kind : {"null"}, ids : {<<>>}]
                   \cup [kind : {"array"}, ids : {<<>>} \cup {<<id>> : id \in DocIds}]]

\* new Set(allowedDocIds.map(String))
SetOf(ids) == {ids[i] : i \in 1..Len(ids)}

\* an update that clears the list of allowed documents when the body has none
Mutant_UpdateSettings(body) ==
  LET inc == IF body.includeSystemDocuments \in {"true", "false"}
             THEN body.includeSystemDocuments = "true"
             ELSE retrievalSettings.includeSystemDocuments
      allowed == IF body.allowedDocIds.kind = "array" THEN Some(SetOf(body.allowedDocIds.ids))
                 ELSE NULL
      after == [includeSystemDocuments |-> inc, allowedDocIds |-> allowed]
  IN  /\ retrievalSettings' = after
      /\ settingsReply' = Some([body |-> body, success |-> TRUE, settings |-> after])
      /\ UNCHANGED <<configVars, storeVars, ledgerVars, uploads, query,
                     deleteReply, deleted, historyReply, probe, policy, callVars>>

UpdateSettings(body) ==
  LET inc == IF body.includeSystemDocuments \in {"true", "false"}
             THEN body.includeSystemDocuments = "true"
             ELSE retrievalSettings.includeSystemDocuments
      allowed == IF body.allowedDocIds.kind = "array" THEN Some(SetOf(body.allowedDocIds.ids))
                 ELSE IF body.allowedDocIds.kind = "null" THEN NULL
                 ELSE retrievalSettings.allowedDocIds
      after == [includeSystemDocuments |-> inc, allowedDocIds |-> allowed]
  IN  /\ retrievalSettings' = after
      /\ settingsReply' = Some([body |-> body, success |-> TRUE, settings |-> after])
      /\ UNCHANGED <<configVars, storeVars, ledgerVars, uploads, query,
                     deleteReply, deleted, historyReply, probe, policy, callVars>>

\* -------------------------------------------------------- query history
\* a cap that keeps the first 50
Mutant_pushHistory(history, record) ==
  LET pushed == Append(history, record)
  IN  IF Len(pushed) > HistoryCap THEN SubSeq(pushed, 1, HistoryCap) ELSE pushed

\* push, then keep only the last 50
pushHistory(history, record) ==
  LET pushed == Append(history, record)
  IN  IF Len(pushed) > HistoryCap
      THEN SubSeq(pushed, Len(pushed) - HistoryCap + 1, Len(pushed))
      ELSE pushed

\* POST /query-history; n numbers the appended records (their timestamps)
PostHistory(text) ==
  /\ IF text # Empty
     THEN /\ queryHistory' = pushHistory(queryHistory, [query |-> text, n |-> numAppends + 1])
          /\ numAppends' = numAppends + 1
          /\ historyReply' = [op |-> "post", status |-> 200, error |-> UNDEF, records |-> <<>>]
     ELSE /\ UNCHANGED <<queryHistory, numAppends>>
          /\ historyReply' = [op |-> "post", status |-> 400, error |-> "Query is required",
                              records |-> <<>>]
  /\ UNCHANGED <<configVars, storeVars, retrievalSettings, uploads, query,
                 deleteReply, deleted, settingsReply, probe, policy, callVars>>

\* s.slice(-n)
sliceLast(s, n) == SubSeq(s, IF Len(s) > n THEN Len(s) - n + 1 ELSE 1, Len(s))

\* GET /query-history
ListHistory ==
  /\ historyReply' = [op |-> "get", status |-> 200, error |-> UNDEF,
                      records |-> sliceLast(queryHistory, ListLimit)]
  /\ UNCHANGED <<configVars, storeVars, retrievalSettings, ledgerVars, uploads, query,
                 deleteReply, deleted, settingsReply, probe, policy, callVars>>

\* ------------------------------------------------------ POST /process-query
\* fixed texts of the payloads, each kept as one symbol
NoDocumentsAnswer == <<-1>>
NoDocumentsReasoning == <<-2>>
NoDocumentsJustification == <<-3>>
UnableAnswer == <<-4>>
TechnicalError == <<-5>>
GeneratedFromDocuments == <<-6>>

ErrorReply(status, error) ==
  [status |-> status, body |-> "error", error |-> error, answer |-> Missing, decision |-> UNDEF,
   reasoning |-> Missing, Decision |-> UNDEF, Amount |-> NULL, Justification |-> Missing]

Payload(answer, decision, reasoning, Decision, Amount, Justification) ==
  [status |-> 200, body |-> "payload", error |-> UNDEF, answer |-> answer, decision |-> decision,
   reasoning |-> reasoning, Decision |-> Decision, Amount |-> Amount,
   Justification |-> Justification]

EmptyContextPayload ==
  Payload(NoDocumentsAnswer, "requires_more_info", NoDocumentsReasoning,
          "requires_more_info", NULL, NoDocumentsJustification)

FallbackPayload ==
  Payload(UnableAnswer, "requires_more_info", TechnicalError,
          "requires_more_info", NULL, TechnicalError)

\* what the answer call can come back with
LLMFailures == {"http_error", "timeout", "no_candidates", "not_json", "json_null"}
LLMObjects ==
  [kind : {"object"}, answer : {Missing, Ok, FiveDollarFee}, decision : {UNDEF, "approved"},
   reasoning : {Missing, Because, SevenINR}]
LLMOutcomes ==
  [kind : LLMFailures \cup {"json_scalar"}, answer : {Missing}, decision : {UNDEF},
   reasoning : {Missing}] \cup LLMObjects

\* answers that state amounts in the forms the extraction looks for
AmountAnswers ==
  {<<36, 48>>,                                             \* "$0"
   <<36, 49, 44, 50, 53, 48, 32, 102, 101, 101>>,             \* "$1,250 fee"
   <<112, 97, 121, 32, 49, 50, 32, 100, 111, 108, 108, 97, 114, 115>>,  \* "pay 12 dollars"
   <<110, 111, 32, 102, 101, 101>>,                          \* "no fee"
   <<8377, 51, 48, 48>>,                                   \* the rupee sign and "300"
   Missing}
AmountOutcomes ==
  [kind : {"object"}, answer : AmountAnswers, decision : {"approved"},
   reasoning : {Missing, Because, SevenINR}]

\* a synthesis whose catch lets the transport errors through
Mutant_synthesize(text, outcome) ==
  IF outcome.kind \in {"http_error", "timeout"} THEN ErrorReply(500, "Internal server error")
  ELSE IF outcome.kind \in LLMFailures THEN FallbackPayload
  ELSE IF outcome.kind = "json_scalar"
  THEN [status |-> 200, body |-> "scalar", error |-> UNDEF, answer |-> Missing, decision |-> UNDEF,
        reasoning |-> Missing, Decision |-> UNDEF, Amount |-> NULL, Justification |-> Missing]
  ELSE Payload(outcome.answer, outcome.decision, outcome.reasoning,
               IF outcome.decision = UNDEF THEN "requires_more_info" ELSE outcome.decision,
               extractAmount(text, outcome.answer, outcome.reasoning),
               IF outcome.reasoning = Missing THEN GeneratedFromDocuments ELSE outcome.reasoning)

\* the try block of the synthesis and its catch
synthesize(text, outcome) ==
  IF outcome.kind \in LLMFailures THEN FallbackPayload
  ELSE IF outcome.kind = "json_scalar"
  THEN [status |-> 200, body |-> "scalar", error |-> UNDEF, answer |-> Missing, decision |-> UNDEF,
        reasoning |-> Missing, Decision |-> UNDEF, Amount |-> NULL, Justification |-> Missing]
  ELSE Payload(outcome.answer, outcome.decision, outcome.reasoning,
               IF outcome.decision = UNDEF THEN "requires_more_info" ELSE outcome.decision,
               extractAmount(text, outcome.answer, outcome.reasoning),
               IF outcome.reasoning = Missing THEN GeneratedFromDocuments ELSE outcome.reasoning)

\* a handler that stores the query in the history before it checks it
Mutant_QStart(text) ==
  /\ query.pc \in {"idle", "done"}
  /\ query' = IF text = Empty
              THEN [IdleQuery EXCEPT !.pc = "done", !.text = text,
                                     !.response = ErrorReply(400, "Query is required")]
              ELSE [IdleQuery EXCEPT !.pc = "parse", !.text = text,
                                     !.structured = basicHeuristicParse(text)]
  /\ queryHistory' = IF text = Empty
                     THEN pushHistory(queryHistory, [query |-> text, n |-> numAppends + 1])
                     ELSE queryHistory
  /\ numAppends' = IF text = Empty THEN numAppends + 1 ELSE numAppends
  /\ UNCHANGED <<configVars, storeVars, retrievalSettings, uploads, ghostReplies>>

QStart(text) ==
  /\ query.pc \in {"idle", "done"}
  /\ query' = IF text = Empty
              THEN [IdleQuery EXCEPT !.pc = "done", !.text = text,
                                     !.response = ErrorReply(400, "Query is required")]
              ELSE [IdleQuery EXCEPT !.pc = "parse", !.text = text,
                                     !.structured = basicHeuristicParse(text)]
  /\ UNCHANGED <<configVars, storeVars, retrievalSettings, ledgerVars, uploads, ghostReplies>>

\* the parser call returns or fails; similaritySearch is called and awaits
\* the embedding of the query
\* a merge that keeps of the heuristic result nothing once the parser answered
Mutant_QParse(outcome) ==
  /\ query.pc = "parse"
  /\ query' = [query EXCEPT !.pc = "search", !.llmCalls = @ + 1, !.parser = outcome.kind,
                            !.parsed = outcome.parsed,
                            !.structured =
                              IF outcome.kind \in ParserFailures THEN @
                              ELSE [f \in DOMAIN @ |->
                                      IF outcome.parsed[f] = Absent THEN NULL
                                      ELSE outcome.parsed[f]]]
  /\ UNCHANGED <<configVars, storeVars, retrievalSettings, ledgerVars, uploads,
                 ghostReplies>>

QParse(outcome) ==
  /\ query.pc = "parse"
  /\ query' = [query EXCEPT !.pc = "search", !.llmCalls = @ + 1, !.parser = outcome.kind,
                            !.parsed = outcome.parsed,
                            !.structured = mergeStructured(@, outcome)]
  /\ UNCHANGED <<configVars, storeVars, retrievalSettings, ledgerVars, uploads,
                 ghostReplies>>

\* the embedding is back: score, sort, slice; with Pinecone the remote query
\* returns its matches or throws
QSearch(embedOk, searchOk) ==
  /\ query.pc = "search"
  /\ (embedOk \/ embedder)
  /\ (searchOk \/ backend = "pinecone")
  /\ LET searchResults ==
           similaritySearch(IF backend = "memory" THEN indexedDocuments ELSE pineconeVectors,
                            query.text, TopK, embedder /\ embedOk)
         context == Join([i \in 1..Len(searchResults) |-> searchResults[i].pageContent],
                         <<10, 10>>)
     IN  query' =
           IF ~searchOk
           THEN [query EXCEPT !.pc = "done", !.threw = "similaritySearch",
                              !.response = ErrorReply(500, "Internal server error")]
           ELSE IF IsBlank(context)
           THEN [query EXCEPT !.pc = "done", !.context = searchResults,
                              !.allowed = retrievalSettings.allowedDocIds,
                              !.response = EmptyContextPayload]
           ELSE [query EXCEPT !.pc = "synth", !.context = searchResults,
                              !.allowed = retrievalSettings.allowedDocIds]
  /\ UNCHANGED <<configVars, storeVars, retrievalSettings, ledgerVars, uploads,
                 ghostReplies>>

\* the answer call is back: build the response, store the query in the
\* history, respond
QSynth(outcome) ==
  /\ query.pc = "synth"
  /\ query' = [query EXCEPT !.pc = "done", !.llmCalls = @ + 1, !.llm = outcome,
                            !.response = synthesize(query.text, outcome)]
  /\ queryHistory' = pushHistory(queryHistory, [query |-> query.text, n |-> numAppends + 1])
  /\ numAppends' = numAppends + 1
  /\ UNCHANGED <<configVars, storeVars, retrievalSettings, uploads,
                 ghostReplies>>

\* ------------------------------------------ vectorStore.similaritySearch
\* a store whose fallback vector also depends on how many entries it holds
Mutant_Probe(text, k, ok) ==
  /\ (ok \/ embedder)
  /\ probe' = Some([text |-> text, k |-> k, index |-> indexedDocuments,
                    modelOk |-> embedder /\ ok,
                    queryEmbedding |->
                      IF embedder /\ ok THEN ModelEmbedding(text)
                      ELSE [length |-> EmbeddingDim,
                            comps |-> [i \in 1..VecLen |->
                               Wave(HashOf(text), i - 1 + Len(indexedDocuments))]],
                    previous |-> IF probe = NULL THEN NULL
                                 ELSE Some([text |-> probe[1].text, modelOk |-> probe[1].modelOk,
                                            queryEmbedding |-> probe[1].queryEmbedding]),
                    result |-> similaritySearch(indexedDocuments, text, k, embedder /\ ok)])
  /\ UNCHANGED <<configVars, storeVars, retrievalSettings, ledgerVars, uploads, query,
                 deleteReply, deleted, settingsReply, historyReply, policy, callVars>>

\* a direct call on the in-memory store with any k
Probe(text, k, ok) ==
  /\ (ok \/ embedder)
  /\ probe' = Some([text |-> text, k |-> k, index |-> indexedDocuments,
                    modelOk |-> embedder /\ ok,
                    queryEmbedding |-> embedQuery(text, embedder /\ ok),
                    previous |-> IF probe = NULL THEN NULL
                                 ELSE Some([text |-> probe[1].text, modelOk |-> probe[1].modelOk,
                                            queryEmbedding |-> probe[1].queryEmbedding]),
                    result |-> similaritySearch(indexedDocuments, text, k, embedder /\ ok)])
  /\ UNCHANGED <<configVars, storeVars, retrievalSettings, ledgerVars, uploads, query,
                 deleteReply, deleted, settingsReply, historyReply, policy, callVars>>

\* ---------------------------------------------------- evaluatePolicyLogic
\* The numbers of a StructuredQuery are kept in tenths, so that half a year
\* is 5; a field that is null or absent is NULL (Number.isFinite is false
\* for both).
HalfYear == 5
MinAgeYears == 180
MaxAgeYears == 600
WaitingMonths == 60
Tier1Amount == 5000
OtherAmount == 3000

tier1 == {mumbai, delhi, bangalore, kolkata, chennai}

Rejected == [Decision |-> "rejected", Amount |-> NULL]
Approved(amount) == [Decision |-> "approved", Amount |-> Some(amount)]

\* an evaluator that also turns away the ages on the edges of the window
Mutant_evaluatePolicyLogic(structured) ==
  LET ageYears == structured.ageYears
      policyAgeMonths == structured.policyAgeMonths
      location == toLowerCase(structured.location)
  IN  IF ageYears # NULL /\ ageYears[1] < HalfYear THEN Rejected
      ELSE IF ageYears # NULL /\ (ageYears[1] <= MinAgeYears \/ ageYears[1] >= MaxAgeYears)
      THEN Rejected
      ELSE IF policyAgeMonths # NULL /\ policyAgeMonths[1] < WaitingMonths THEN Rejected
      ELSE Approved(IF location \in tier1 THEN Tier1Amount ELSE OtherAmount)

evaluatePolicyLogic(structured) ==
  LET ageYears == structured.ageYears
      policyAgeMonths == structured.policyAgeMonths
      location == toLowerCase(structured.location)
  IN  IF ageYears # NULL /\ ageYears[1] < HalfYear THEN Rejected
      ELSE IF ageYears # NULL /\ (ageYears[1] < MinAgeYears \/ ageYears[1] > MaxAgeYears)
      THEN Rejected
      ELSE IF policyAgeMonths # NULL /\ policyAgeMonths[1] < WaitingMonths THEN Rejected
      ELSE Approved(IF location \in tier1 THEN Tier1Amount ELSE OtherAmount)

Ages == {-10, 0, 3, 5, 10, 170, 179, 180, 300, 600, 601, 650}
PolicyAges == {0, 30, 59, 60, 120}
\* null, four cities as they are spelled in the table, "DELHI" and "smalltown"
Locations ==
  {NULL, mumbai, Mumbai, chennai, pune, <<68, 69, 76, 72, 73>>,
   <<115, 109, 97, 108, 108, 116, 111, 119, 110>>}

StructuredQueries ==
  [ageYears : {NULL} \cup {Some(a) : a \in Ages}, ageMonths : {NULL},
   procedure : {NULL}, location : Locations,
   policyAgeMonths : {NULL} \cup {Some(m) : m \in PolicyAges}]

NotEvaluated == [Decision |-> "none", Amount |-> NULL]

\* a StructuredQuery arrives
Structure(structured) ==
  /\ policy' = Some([structured |-> structured, decision |-> NotEvaluated])
  /\ UNCHANGED <<configVars, storeVars, retrievalSettings, ledgerVars, uploads, query,
                 deleteReply, deleted, settingsReply, historyReply, probe, callVars>>

\* and is evaluated
Evaluate ==
  /\ policy # NULL
  /\ policy' = Some([policy[1] EXCEPT !.decision = evaluatePolicyLogic(policy[1].structured)])
  /\ UNCHANGED <<configVars, storeVars, retrievalSettings, ledgerVars, uploads, query,
                 deleteReply, deleted, settingsReply, historyReply, probe, callVars>>

\* ------------------------------------------------------ the per-user server
\* how many results the query asks of the store before it filters them
SearchK == 20

\* POST /api/documents/upload by user u, up to the INSERT of the row; the
\* document is the sequence of its chunks and its uuid is the next number
ApiUpload(u, doc) ==
  /\ userUpload = NULL
  /\ nextDocumentId <= MaxUserUploads
  /\ documents' = Append(documents, [id |-> nextDocumentId, user_id |-> u])
  /\ userUpload' = Some([docId |-> nextDocumentId, userId |-> u, chunks |-> doc, next |-> 1])
  /\ nextDocumentId' = nextDocumentId + 1
  /\ UNCHANGED <<configVars, indexedDocuments, pineconeVectors, documentRegistry, files,
                 retrievalSettings, ledgerVars, uploads, query, deleteReply, deleted,
                 settingsReply, historyReply, probe, policy, cosine, userQuery>>

\* one turn of the loop of addDocuments: embed a chunk and push it
ApiAddDocuments ==
  /\ userUpload # NULL
  /\ LET up == userUpload[1]
         entry == [content |-> up.chunks[up.next],
                   embedding |-> embedQuery(up.chunks[up.next], embedder),
                   metadata |-> [docId |-> up.docId, userId |-> up.userId]]
     IN  /\ indexedDocuments' = Append(indexedDocuments, entry)
         /\ userUpload' = IF up.next = Len(up.chunks) THEN NULL
                          ELSE Some([up EXCEPT !.next = @ + 1])
  /\ UNCHANGED <<configVars, pineconeVectors, documentRegistry, nextDocumentId, files,
                 retrievalSettings, ledgerVars, uploads, query, deleteReply, deleted,
                 settingsReply, historyReply, probe, policy, cosine, documents, userQuery>>

\* DELETE /api/documents/:id by user u, when the SELECT finds the row with
\* this id and this user; when it finds none the reply is 404 and nothing changes
ApiDelete(u, id) ==
  /\ \E i \in 1..Len(documents) : documents[i].id = id /\ documents[i].user_id = u
  /\ documents' = SelectSeq(documents, LAMBDA row : row.id # id)
  /\ indexedDocuments' = KeepOthers(indexedDocuments, id)
  /\ UNCHANGED <<configVars, pineconeVectors, documentRegistry, nextDocumentId, files,
                 retrievalSettings, ledgerVars, uploads, query, deleteReply, deleted,
                 settingsReply, historyReply, probe, policy, cosine, userUpload, userQuery>>

\* POST /api/process-query by user u, up to the read of the user's rows
ApiQuery(u, text) ==
  /\ IF userQuery = NULL THEN TRUE ELSE userQuery[1].pc = "done"
  /\ LET userDocIds == {documents[i].id : i \in {j \in 1..Len(documents) : documents[j].user_id = u}}
         request == [pc |-> "done", user |-> u, text |-> text, userDocIds |-> userDocIds,
                     searched |-> FALSE, owned |-> 0, context |-> <<>>, llmCalls |-> 0,
                     saved |-> FALSE,
                     status |-> 200, Decision |-> UNDEF, Amount |-> NULL, Justification |-> UNDEF]
     IN  userQuery' = Some(
           IF text = Empty
           THEN [request EXCEPT !.status = 400, !.Justification = "Query is required"]
           ELSE IF userDocIds = {}
           THEN [request EXCEPT !.Decision = "requires_more_info",
                   !.Justification = "No documents have been uploaded yet. Please upload your policy documents first."]
           ELSE [request EXCEPT !.pc = "search"])
  /\ UNCHANGED <<configVars, storeVars, retrievalSettings, ledgerVars, uploads, query,
                 deleteReply, deleted, settingsReply, historyReply, probe, policy, cosine,
                 documents, userUpload>>

\* a search that keeps the five most similar results whoever owns them
Mutant_ApiSearch ==
  /\ userQuery # NULL
  /\ userQuery[1].pc = "search"
  /\ LET q == userQuery[1]
         allSearchResults == similaritySearch(indexedDocuments, q.text, SearchK, embedder)
         searchResults == Slice(allSearchResults, TopK)
         owned == Cardinality({i \in 1..Len(indexedDocuments) :
                                  indexedDocuments[i].metadata.docId \in q.userDocIds})
         blank == \/ searchResults = <<>>
                  \/ (Len(searchResults) = 1 /\ searchResults[1].pageContent = Empty)
     IN  userQuery' = Some(
           IF blank
           THEN [q EXCEPT !.pc = "done", !.searched = TRUE, !.owned = owned,
                   !.Decision = "requires_more_info",
                   !.Justification = "Could not find relevant information in your documents to answer this question."]
           ELSE [q EXCEPT !.pc = "llm", !.searched = TRUE, !.owned = owned,
                          !.context = searchResults])
  /\ UNCHANGED <<configVars, storeVars, retrievalSettings, ledgerVars, uploads, query,
                 deleteReply, deleted, settingsReply, historyReply, probe, policy, cosine,
                 documents, userUpload>>

\* the search of the query: the 20 most similar chunks of the whole index,
\* then those of the user's documents, then the first five of these; the
\* joined context is blank only when no chunk is left or a single blank one
\* is (`owned` counts the indexed chunks of the user's documents at this time)
ApiSearch ==
  /\ userQuery # NULL
  /\ userQuery[1].pc = "search"
  /\ LET q == userQuery[1]
         allSearchResults == similaritySearch(indexedDocuments, q.text, SearchK, embedder)
         searchResults == Slice(SelectSeq(allSearchResults,
                                   LAMBDA result : result.metadata.docId \in q.userDocIds), TopK)
         owned == Cardinality({i \in 1..Len(indexedDocuments) :
                                  indexedDocuments[i].metadata.docId \in q.userDocIds})
         blank == \/ searchResults = <<>>
                  \/ (Len(searchResults) = 1 /\ searchResults[1].pageContent = Empty)
     IN  userQuery' = Some(
           IF blank
           THEN [q EXCEPT !.pc = "done", !.searched = TRUE, !.owned = owned,
                   !.Decision = "requires_more_info",
                   !.Justification = "Could not find relevant information in your documents to answer this question."]
           ELSE [q EXCEPT !.pc = "llm", !.searched = TRUE, !.owned = owned,
                          !.context = searchResults])
  /\ UNCHANGED <<configVars, storeVars, retrievalSettings, ledgerVars, uploads, query,
                 deleteReply, deleted, settingsReply, historyReply, probe, policy, cosine,
                 documents, userUpload>>

\* the answer call, the INSERT of the history row (`saved`) and the reply;
\* the answers drawn here state no amount
ApiSynth(outcome) ==
  /\ userQuery # NULL
  /\ userQuery[1].pc = "llm"
  /\ userQuery' = Some(
       IF outcome.kind \in LLMFailures
       THEN [userQuery[1] EXCEPT !.pc = "done", !.llmCalls = @ + 1, !.saved = TRUE,
               !.Decision = "requires_more_info",
               !.Justification = "Technical error occurred while analyzing policy documents."]
       ELSE [userQuery[1] EXCEPT !.pc = "done", !.llmCalls = @ + 1, !.saved = TRUE,
               !.Decision = IF outcome.decision = UNDEF THEN "requires_more_info"
                            ELSE outcome.decision,
               !.Justification = IF outcome.reasoning = Missing
                                 THEN "Response generated based on policy documents"
                                 ELSE "reasoning"])
  /\ UNCHANGED <<configVars, storeVars, retrievalSettings, ledgerVars, uploads, query,
                 deleteReply, deleted, settingsReply, historyReply, probe, policy, cosine,
                 documents, userUpload>>

\* ------------------------------------------------ cosineSimilarity, called
\* one call of cosineSimilarity on any two values
Compare(vecA, vecB) ==
  /\ cosine' = Some([vecA |-> vecA, vecB |-> vecB, similarity |-> cosineSimilarity(vecA, vecB)])
  /\ UNCHANGED <<configVars, storeVars, retrievalSettings, ledgerVars, uploads, query,
                 deleteReply, deleted, settingsReply, historyReply, probe, policy, userVars>>

\* ------------------------------------------------------------------- specs
UploadStep ==
  \/ \E r \in Requests, doc \in DocChoices : UploadStart(r, doc)
  \/ \E r \in Requests, ok \in BOOLEAN : UploadExtract(r, ok)
  \/ \E r \in Requests, ok \in BOOLEAN : UploadSplit(r, ok)
  \/ \E r \in Requests, ok \in BOOLEAN : UploadEmbed(r, ok)

QueryStep(texts, limit, parses) ==
  \/ (numAppends < limit /\ \E text \in texts : QStart(text))
  \/ \E outcome \in parses : QParse(outcome)
  \/ \E embedOk \in BOOLEAN, searchOk \in BOOLEAN : QSearch(embedOk, searchOk)
  \/ \E outcome \in LLMOutcomes : QSynth(outcome)

\* uploads and deletes on the in-memory store
NextIngest ==
  \/ UploadStep
  \/ \E id \in DocIds : Delete(id)

SpecIngest == InitIngest /\ [][NextIngest]_vars

\* queries, settings and deletes over the documents loaded at startup
NextQuery ==
  \/ QueryStep(QueryTexts, MaxQueries, ParserDown)
  \/ \E body \in ScopeBodies : UpdateSettings(body)
  \/ \E id \in DocIds : Delete(id)

SpecQuery == InitLoaded /\ [][NextQuery]_vars

\* uploads, deletes and queries with the Pinecone index
NextPinecone ==
  \/ UploadStep
  \/ \E r \in Requests, ok \in BOOLEAN : UploadUpsert(r, ok)
  \/ \E id \in DocIds : Delete(id)
  \/ QueryStep(QueryTexts, MaxQueries, ParserDown)

SpecPinecone == InitPineconeFallback /\ [][NextPinecone]_vars

\* uploads into the in-memory store and direct searches on it
NextStore ==
  \/ UploadStep
  \/ \E text \in ChunkTexts, k \in 1..MaxK, ok \in BOOLEAN : Probe(text, k, ok)

SpecStore == InitIngest /\ [][NextStore]_vars

\* queries and deletes over the documents loaded at startup
NextAnswer ==
  \/ QueryStep(QueryTexts, MaxQueries, ParserDown)
  \/ \E id \in DocIds : Delete(id)

SpecAnswer == InitLoaded /\ [][NextAnswer]_vars

\* the policy evaluator on its own
NextPolicy ==
  \/ \E structured \in StructuredQueries : Structure(structured)
  \/ Evaluate

SpecPolicy == InitIngest /\ [][NextPolicy]_vars

\* the two sources of history records
LedgerTexts == {Fee, Empty}

NextLedger ==
  \/ QueryStep(LedgerTexts, MaxAppends, ParserDown)
  \/ (numAppends < MaxAppends /\ \E text \in LedgerTexts : PostHistory(text))

SpecLedger == InitLoaded /\ [][NextLedger]_vars

\* appends from both sources and listings of the history
NextHistory ==
  \/ QueryStep(LedgerTexts, MaxListed, ParserDown)
  \/ (numAppends < MaxListed /\ \E text \in LedgerTexts : PostHistory(text))
  \/ ListHistory

SpecHistory == InitLoaded /\ [][NextHistory]_vars

\* the answer call times out, or answers with a complete object
PlainOutcomes ==
  {o \in LLMOutcomes :
     \/ o.kind = "timeout"
     \/ (o.answer = Ok /\ o.decision = "approved" /\ o.reasoning = Because)}

\* queries with every outcome of the parser call
NextStructure ==
  \/ (numAppends < MaxAnswered /\ \E text \in StructureTexts : QStart(text))
  \/ \E outcome \in ParserOutcomes : QParse(outcome)
  \/ \E embedOk \in BOOLEAN, searchOk \in BOOLEAN : QSearch(embedOk, searchOk)
  \/ \E outcome \in PlainOutcomes : QSynth(outcome)

SpecStructure == InitLoaded /\ [][NextStructure]_vars

\* queries about money and not, answered with amounts in every form
NextAmount ==
  \/ (numAppends < MaxQueries /\ \E text \in QueryTexts : QStart(text))
  \/ \E outcome \in ParserDown : QParse(outcome)
  \/ \E embedOk \in BOOLEAN, searchOk \in BOOLEAN : QSearch(embedOk, searchOk)
  \/ \E outcome \in AmountOutcomes : QSynth(outcome)

SpecAmount == InitLoaded /\ [][NextAmount]_vars

\* every kind of settings update among one upload, its delete, one query
\* and the history operations
NextSettings ==
  \/ \E body \in SettingsBodies : UpdateSettings(body)
  \/ UploadStart(1, <<Aa>>)
  \/ \E ok \in BOOLEAN : UploadExtract(1, ok)
  \/ UploadSplit(1, TRUE)
  \/ UploadEmbed(1, TRUE)
  \/ Delete(1)
  \/ (numAppends < MaxAnswered /\ QStart(Fee))
  \/ \E outcome \in ParserDown : QParse(outcome)
  \/ QSearch(TRUE, TRUE)
  \/ \E outcome \in PlainOutcomes : QSynth(outcome)
  \/ (numAppends < MaxAnswered /\ PostHistory(Fee))
  \/ ListHistory

SpecSettings == InitIngest /\ [][NextSettings]_vars

\* one upload, its delete and direct searches with the embedding model loaded or not,
\* and throwing or not on each call
NextEmbed ==
  \/ \E doc \in DocChoices : UploadStart(1, doc)
  \/ \E ok \in BOOLEAN : UploadExtract(1, ok)
  \/ \E ok \in BOOLEAN : UploadSplit(1, ok)
  \/ \E ok \in BOOLEAN : UploadEmbed(1, ok)
  \/ Delete(1)
  \/ \E text \in ChunkTexts \cup {Empty, FiveYearPune}, ok \in BOOLEAN :
        Probe(text, MaxK, ok)

SpecEmbed == Init /\ [][NextEmbed]_vars

\* cosineSimilarity alone, on arrays of up to VecLen numbers, on embeddings and
\* on values that are no arrays
NextCosine ==
  LET arrays == UNION {[length : {n}, comps : [1..n -> {-2, 0, 1}]] : n \in 0..VecLen}
      embeddings == {FallbackEmbedding(text) : text \in {Aa, Fee}}
      others == [typeof : {"undefined", "object", "string"}]
      values == arrays \cup embeddings \cup others
  IN  \E vecA \in values, vecB \in values : Compare(vecA, vecB)

SpecCosine == InitIngest /\ [][NextCosine]_vars

\* direct searches of the store the server starts with, before and after
\* deletes of its documents
NextSearch ==
  \/ \E id \in 1..Len(StartupDocs) : Delete(id)
  \/ \E text \in ChunkTexts, k \in 1..MaxK, ok \in BOOLEAN : Probe(text, k, ok)

SpecSearch == InitLoaded /\ [][NextSearch]_vars

\* the per-user server with two users and one query: user 1 uploads one-chunk
\* documents, user 2 documents of SearchK chunks that all read "fee"; the
\* uploads are over when the query arrives, the deletes precede its search
NextUsers ==
  LET searched == IF userQuery = NULL THEN FALSE ELSE userQuery[1].pc \in {"llm", "done"}
  IN  \/ (userQuery = NULL /\ \E u \in 1..2 :
            ApiUpload(u, IF u = 1 THEN <<Aa>> ELSE [i \in 1..SearchK |-> Fee]))
      \/ (userQuery = NULL /\ ApiAddDocuments)
      \/ (~searched /\ \E u \in 1..2, id \in 1..MaxUserUploads : ApiDelete(u, id))
      \/ (userQuery = NULL /\ userUpload = NULL
            /\ \E u \in 1..2, text \in {Fee, Empty} : ApiQuery(u, text))
      \/ ApiSearch
      \/ \E outcome \in PlainOutcomes : ApiSynth(outcome)

SpecUsers == InitIngest /\ [][NextUsers]_vars

\* ----------------------------------------------------------------- claims
ChunksOf(index, id) == SelectSeq(index, LAMBDA d : d.metadata.docId = id)
HasChunkOf(index, id) == \E i \in 1..Len(index) : index[i].metadata.docId = id
OthersOf(registry, id) == SelectSeq(registry, LAMBDA d : d.id # id)

\* C1: once allowedDocIds is set to one document, the context of a query
\* holds only chunks of that document
C1_RetrievalScope ==
  (query.pc \in {"synth", "done"} /\ query.allowed # NULL /\ Cardinality(query.allowed[1]) = 1) =>
     \A i \in 1..Len(query.context) : query.context[i].metadata.docId \in query.allowed[1]

\* C2: a delete that answers success leaves the registry and the index
\* without the document and keeps every other entry in place and in order,
\* and from then on the index never holds a chunk of the deleted document
C2_DeleteCascade ==
  [][/\ (deleted' # deleted =>
           /\ deleteReply'.id \notin {documentRegistry'[i].id : i \in 1..Len(documentRegistry')}
           /\ documentRegistry' = OthersOf(documentRegistry, deleteReply'.id)
           /\ indexedDocuments' = KeepOthers(indexedDocuments, deleteReply'.id))
     /\ \A id \in deleted' : ~HasChunkOf(indexedDocuments', id)]_vars

\* chunks of the upload that the index must hold by now
Indexed(u) ==
  IF u.pc = "embed" THEN u.next - 1
  ELSE IF u.pc = "done" /\ u.result = "id" THEN Len(u.doc)
  ELSE 0

\* C3: with the in-memory store, the chunks of every registered document are
\* in the index exactly once and in order: a prefix of them while its upload
\* is indexing, all of them once the upload has answered
C3_NoDropNoDuplicate ==
  backend = "memory" =>
    \A r \in Requests :
      uploads[r].docId \in RegistryIds =>
        LET u == uploads[r]
            held == ChunksOf(indexedDocuments, u.docId)
        IN  /\ Len(held) = Indexed(u)
            /\ \A i \in 1..Len(held) : held[i].metadata.loc = i /\ held[i].content = u.doc[i]

AllUploadsDone == \A r \in Requests : uploads[r].pc = "done"

\* both uploads answered with an id while a delete removed the first
\* document; the two chunks of the second are indexed
C3_Witness ==
  /\ AllUploadsDone
  /\ \A r \in Requests : uploads[r].result = "id"
  /\ deleted = {1}
  /\ RegistryIds = {2}
  /\ Len(ChunksOf(indexedDocuments, 2)) = 2

\* C4: what the evaluator returns is what the rule table says
RuleTable(sq) ==
  IF sq.ageYears # NULL /\ sq.ageYears[1] < 5 THEN [Decision |-> "rejected", Amount |-> NULL]
  ELSE IF sq.ageYears # NULL /\ (sq.ageYears[1] < 180 \/ sq.ageYears[1] > 600)
  THEN [Decision |-> "rejected", Amount |-> NULL]
  ELSE IF sq.policyAgeMonths # NULL /\ sq.policyAgeMonths[1] < 60
  THEN [Decision |-> "rejected", Amount |-> NULL]
  ELSE IF \E city \in {mumbai, delhi, bangalore, kolkata, chennai} :
             toLowerCase(sq.location) = city
  THEN [Decision |-> "approved", Amount |-> <<5000>>]
  ELSE [Decision |-> "approved", Amount |-> <<3000>>]

C4_PolicyRuleTable ==
  (policy # NULL /\ policy[1].decision # NotEvaluated) =>
     LET sq == policy[1].structured
         decision == policy[1].decision
     IN  /\ decision = RuleTable(sq)
         /\ decision.Decision # "requires_more_info"
         /\ (sq.ageYears \in {NULL, <<180>>, <<600>>} /\ sq.policyAgeMonths \in {NULL, <<60>>}
               => decision.Decision = "approved")

\* age 18 with a policy of 6 months in "Mumbai" is approved with 5000
C4_Witness ==
  /\ policy # NULL
  /\ policy[1].structured.ageYears = <<180>>
  /\ policy[1].structured.policyAgeMonths = <<60>>
  /\ policy[1].structured.location = Mumbai
  /\ policy[1].decision = [Decision |-> "approved", Amount |-> <<5000>>]

\* C7: an upload that answered with an error has left no registry entry and
\* no chunk behind
C7_FailedUploadLeavesNothing ==
  \A r \in Requests :
    (uploads[r].pc = "done" /\ uploads[r].result # "id") =>
       /\ uploads[r].docId \notin RegistryIds
       /\ ~HasChunkOf(indexedDocuments, uploads[r].docId)
       /\ ~HasChunkOf(pineconeVectors, uploads[r].docId)

SynthesisFailed(llm) ==
  \/ llm.kind \in {"http_error", "timeout", "not_json"}
  \/ (llm.kind = "object" /\ (llm.decision = UNDEF \/ llm.reasoning = Missing))

\* C5 as stated: every failure of the answer call, a missing required field
\* included, ends in the fixed degraded payload
C5_AnyFailureDegrades ==
  (query.pc = "done" /\ SynthesisFailed(query.llm)) => query.response = FallbackPayload

\* C5 as the code has it: a call that throws, a response without candidates,
\* text that is not JSON and JSON null end in the fixed degraded payload, and
\* no error status goes out; an object without decision or reasoning is
\* answered with the two defaults instead
C5_ThrownFailureDegrades ==
  query.pc = "done" =>
    /\ (query.llm.kind \in LLMFailures =>
          /\ query.response = FallbackPayload
          /\ query.response.Decision = "requires_more_info"
          /\ query.response.Amount = NULL)
    /\ (query.llm.kind # "none" => query.response.status = 200)
    /\ (query.llm.kind = "object" =>
          /\ query.response.body = "payload"
          /\ query.response.answer = query.llm.answer
          /\ query.response.Decision =
               (IF query.llm.decision = UNDEF THEN "requires_more_info" ELSE query.llm.decision)
          /\ query.response.Justification =
               (IF query.llm.reasoning = Missing THEN GeneratedFromDocuments
                ELSE query.llm.reasoning))

\* the answer call timed out and the query was answered with the degraded
\* payload
C5_Witness ==
  /\ query.pc = "done"
  /\ query.llm.kind = "timeout"
  /\ query.context # <<>>
  /\ query.response = FallbackPayload

\* C6: a request in which the vector index threw still ends with an answer
\* payload or a document id
C6_IndexFailureAbsorbed ==
  /\ (query.pc = "done" /\ query.threw = "similaritySearch" =>
        query.response.status = 200 /\ query.response.body = "payload")
  /\ \A r \in Requests :
       (uploads[r].pc = "done" /\ uploads[r].threw = "upsert") => uploads[r].result = "id"

\* C9: a direct search for the text of an indexed chunk returns that chunk,
\* for every k from 1 on
C9_SelfRetrieval ==
  [][probe' # probe =>
       \A i \in 1..Len(indexedDocuments) :
          indexedDocuments[i].content = probe'[1].text =>
             \E j \in 1..Len(probe'[1].result) :
                probe'[1].result[j] = [pageContent |-> indexedDocuments[i].content,
                                       metadata |-> indexedDocuments[i].metadata]]_vars

\* C10: the ledger never holds more than 50 records, and they are the last
\* appended ones in the order of their appending
C10_LedgerCapFifo ==
  /\ Len(queryHistory) <= HistoryCap
  /\ Len(queryHistory) = (IF numAppends < HistoryCap THEN numAppends ELSE HistoryCap)
  /\ \A i \in 1..Len(queryHistory) : queryHistory[i].n = numAppends - Len(queryHistory) + i

\* 52 records were appended: the ledger holds records 3 to 52
C10_Witness ==
  /\ numAppends = HistoryCap + 2
  /\ Len(queryHistory) = HistoryCap
  /\ queryHistory[1].n = 3
  /\ queryHistory[HistoryCap].n = HistoryCap + 2

\* C11: the records a listing returns are ordered most recent first: of any
\* two of them, the one appended later comes earlier
C11_NewestFirst ==
  historyReply.op = "get" =>
    \A i \in 1..Len(historyReply.records) : \A j \in 1..Len(historyReply.records) :
       i < j => historyReply.records[i].n > historyReply.records[j].n

\* C12: a query that is answered with a payload, the short-circuit and the
\* degraded payload included, appends exactly one history record for its
\* text in the step that answers it
C12_EveryAnswerIsRecorded ==
  [][(query'.pc = "done" /\ query.pc # "done" /\ query'.response.body = "payload") =>
       /\ numAppends' = numAppends + 1
       /\ queryHistory' # <<>>
       /\ queryHistory'[Len(queryHistory')] = [query |-> query'.text, n |-> numAppends']]_vars

\* the chunks the retrieval settings leave for a query
InScope(index, settings) ==
  SelectSeq(index, LAMBDA d : /\ (settings.allowedDocIds = NULL
                                    \/ d.metadata.docId \in settings.allowedDocIds[1])
                               /\ (settings.includeSystemDocuments
                                    \/ ~d.metadata.isSystemDocument))

\* C13: a query whose retrieval has no chunk to return, because nothing is
\* indexed or because the retrieval settings leave none, is answered with the
\* fixed requires_more_info payload with Amount null, and the answer call is
\* not made
C13_EmptyRetrievalShortCircuit ==
  [][(query.pc = "search" /\ query'.pc # "search" /\ query'.threw = "none"
        /\ InScope(indexedDocuments, retrievalSettings) = <<>>) =>
       /\ query'.pc = "done"
       /\ query'.response = EmptyContextPayload
       /\ query'.response.decision = "requires_more_info"
       /\ query'.response.Amount = NULL
       /\ query'.llm = NoOutcome]_vars

\* what the heuristic makes of "5 year pune"
FiveYearPuneParsed ==
  [ageYears |-> <<50>>, ageMonths |-> <<>>, procedure |-> <<>>,
   location |-> <<112, 117, 110, 101>>, policyAgeMonths |-> <<>>]

\* C14: when the parser call fails (transport error, timeout, no candidates,
\* text that is not JSON), the StructuredQuery of the request is the result
\* of the heuristic, unmodified, and the request goes on to retrieval and
\* synthesis and is answered with status 200
C14_StructuringNeverFails ==
  query.parser \in ParserFailures =>
    /\ query.structured = basicHeuristicParse(query.text)
    /\ (query.text = FiveYearPune => query.structured = FiveYearPuneParsed)
    /\ query.pc \in {"search", "synth", "done"}
    /\ query.threw = "none"
    /\ (query.pc = "done" => query.response.status = 200 /\ query.llm # NoOutcome)

\* the parser answered with text that is not JSON; the query "5 year pune"
\* kept the heuristic result and was answered by the synthesis
C14_Witness ==
  /\ query.pc = "done"
  /\ query.parser = "not_json"
  /\ query.text = FiveYearPune
  /\ query.structured = FiveYearPuneParsed
  /\ query.context # <<>>
  /\ query.llm.kind = "object"
  /\ query.response.body = "payload"

\* C15: a synthesis that succeeded for a query without any of the money
\* keywords returns Amount null, whatever amount the answer or the reasoning
\* states
C15_NoAmountForOtherQuestions ==
  (/\ query.pc = "done"
   /\ query.llm.kind = "object"
   /\ \A keyword \in moneyKeywords : ~includes(toLowerCase(query.text), keyword)) =>
     /\ query.response.body = "payload"
     /\ query.response.Amount = NULL

\* the query "Aa" was answered with "$5 fee" and "7 INR": no Amount
C15_Witness ==
  /\ query.pc = "done"
  /\ query.text = Aa
  /\ query.llm.kind = "object"
  /\ query.llm.answer = FiveDollarFee
  /\ query.llm.reasoning = SevenINR
  /\ query.response.answer = FiveDollarFee
  /\ query.response.Amount = NULL

\* the amount the claim expects: the digits of the first match, as a number
ExpectedAmount(answer, reasoning) ==
  LET m == amountMatch(Str(answer) \o <<32>> \o Str(reasoning))
  IN  IF m = NULL \/ DigitsOf(m) = <<>> THEN NULL ELSE Some(DecimalValue(0, DigitsOf(m)))

\* C16: a synthesis that succeeded for a query with a money keyword returns
\* as Amount the number of the first $<digits>, rupee or <digits> unit match
\* in answer + reasoning, a non-negative integer, and null when there is no
\* match
C16_AmountOfFirstMatch ==
  (/\ query.pc = "done"
   /\ query.llm.kind = "object"
   /\ \E keyword \in moneyKeywords : includes(toLowerCase(query.text), keyword)) =>
     query.response.Amount = ExpectedAmount(query.llm.answer, query.llm.reasoning)

\* C17: in every payload a query returns, Decision equals decision and
\* Justification equals reasoning
C17_AliasesMirror ==
  (query.pc = "done" /\ query.response.body = "payload") =>
     /\ query.response.Decision = query.response.decision
     /\ query.response.Justification = query.response.reasoning

\* C18: a query request without text is answered at once with 400 'Query
\* is required'; no LLM call, no search and no history append happen, and
\* registry, index, settings and ledger stay as they are.  The same holds
\* for a history post without text.
C18_EmptyQueryRejected ==
  [][/\ ((query' # query /\ query.pc \in {"idle", "done"} /\ query'.text = Empty) =>
            /\ query'.pc = "done"
            /\ query'.response = ErrorReply(400, "Query is required"))
     /\ ((query' # query /\ query'.response.error = "Query is required") =>
            /\ query'.text = Empty
            /\ query'.llmCalls = 0
            /\ query'.parser = "none"
            /\ query'.llm = NoOutcome
            /\ query'.context = <<>>
            /\ UNCHANGED <<storeVars, retrievalSettings, ledgerVars>>)
     /\ ((historyReply' # historyReply /\ historyReply'.status = 400) =>
            /\ historyReply'.error = "Query is required"
            /\ UNCHANGED <<storeVars, retrievalSettings, ledgerVars, query>>)]_vars

\* an empty query was rejected while documents were indexed and the ledger
\* held records
C18_Witness ==
  /\ query.pc = "done"
  /\ query.text = Empty
  /\ query.response = ErrorReply(400, "Query is required")
  /\ query.llmCalls = 0
  /\ indexedDocuments # <<>>
  /\ numAppends = 2
  /\ Len(queryHistory) = 2

SearchEverything == [includeSystemDocuments |-> TRUE, allowedDocIds |-> <<>>]

\* C19: the settings are 'search everything' until the first update; a step
\* that changes them is an update that sets includeSystemDocuments only
\* from a boolean of the body and allowedDocIds only from an array or a null
\* of the body, keeps the other field, and replies with the settings as they
\* are after it; no other operation changes them
C19_SettingsFrame ==
  /\ [][(settingsReply' # settingsReply \/ retrievalSettings' # retrievalSettings) =>
          LET body == settingsReply'[1].body
              old == retrievalSettings
              new == retrievalSettings'
          IN  /\ settingsReply' # settingsReply
              /\ new.includeSystemDocuments =
                    (IF body.includeSystemDocuments = "true" THEN TRUE
                     ELSE IF body.includeSystemDocuments = "false" THEN FALSE
                     ELSE old.includeSystemDocuments)
              /\ new.allowedDocIds =
                    (IF body.allowedDocIds.kind = "array"
                     THEN <<{body.allowedDocIds.ids[i] : i \in DOMAIN body.allowedDocIds.ids}>>
                     ELSE IF body.allowedDocIds.kind = "null" THEN <<>>
                     ELSE old.allowedDocIds)
              /\ settingsReply'[1].success
              /\ settingsReply'[1].settings = new]_vars
  /\ [](settingsReply = <<>> => retrievalSettings = SearchEverything)

\* an update with only includeSystemDocuments = false came after one that
\* allowed document 1: the list is kept, and a query, an upload, a delete
\* and a history append have happened since without touching the settings
C19_Witness ==
  /\ settingsReply # <<>>
  /\ settingsReply[1].body.includeSystemDocuments = "false"
  /\ settingsReply[1].body.allowedDocIds.kind = "undefined"
  /\ retrievalSettings = [includeSystemDocuments |-> FALSE, allowedDocIds |-> <<{1}>>]
  /\ settingsReply[1].settings = retrievalSettings
  /\ query.pc = "done"
  /\ uploads[1].pc = "done"
  /\ deleted = {1}
  /\ numAppends = 1

\* C20: every call of the embedding provider returns a vector, whether the
\* model is not loaded or throws on the input: the request that called it
\* does not fail for it, and the vector it gets when the model failed is the
\* fallback vector of the text, of length 384
C20_EmbeddingNeverFails ==
  /\ probe # <<>> =>
        /\ probe[1].queryEmbedding.length = 384
        /\ Len(probe[1].queryEmbedding.comps) = VecLen
        /\ (~probe[1].modelOk => probe[1].queryEmbedding = FallbackEmbedding(probe[1].text))
        /\ (~embedder => ~probe[1].modelOk)
  /\ \A i \in 1..Len(indexedDocuments) :
        /\ indexedDocuments[i].embedding.length = 384
        /\ Len(indexedDocuments[i].embedding.comps) = VecLen
        /\ (~embedder =>
              indexedDocuments[i].embedding = FallbackEmbedding(indexedDocuments[i].content))
  /\ \A r \in Requests :
        (uploads[r].pc = "done" /\ uploads[r].result # "id") =>
           uploads[r].threw \in {"extractTextFromFile", "splitDocuments"}

\* the model is loaded and threw on the text "fee" of a direct search: the
\* search got the fallback vector and ran over indexed chunks
C20_Witness ==
  /\ embedder
  /\ probe # <<>>
  /\ probe[1].text = Fee
  /\ ~probe[1].modelOk
  /\ probe[1].queryEmbedding.length = 384
  /\ probe[1].queryEmbedding # ModelEmbedding(Fee)
  /\ probe[1].index # <<>>
  /\ Len(probe[1].result) = 1

\* hash = (hash * 31 + charCode) mod 2^32 of the texts searched for, as the
\* two 16-bit halves <<hi, lo>>
RollingHash(text) ==
  IF text = <<>> THEN <<0, 0>>
  ELSE IF text \in {<<65, 97>>, <<66, 66>>} THEN <<0, 2112>>
  ELSE IF text = <<102, 101, 101>> THEN <<1, 35718>>
  ELSE <<15474, 55892>>

C22_CosineTotal ==
  cosine # <<>> =>
    LET a == cosine[1].vecA
        b == cosine[1].vecB
        r == cosine[1].similarity
        noArray(v) == "typeof" \in DOMAIN v
        allZero(v) == \A i \in DOMAIN v.comps : v.comps[i] = 0
    IN  /\ r.d > 0
        /\ (noArray(a) \/ noArray(b)) => r = [n |-> 0, d |-> 1]
        /\ (~noArray(a) /\ ~noArray(b)) =>
              /\ a.length # b.length => r = [n |-> 0, d |-> 1]
              /\ (allZero(a) \/ allZero(b)) => r = [n |-> 0, d |-> 1]

\* a vector of two zeros was compared with a vector of the same length that
\* has a non-zero component
C22_Witness ==
  /\ cosine # <<>>
  /\ cosine[1].vecA = [length |-> 2, comps |-> <<0, 0>>]
  /\ cosine[1].vecB = [length |-> 2, comps |-> <<1, -2>>]
  /\ cosine[1].similarity = [n |-> 0, d |-> 1]

\* C23: a query of a user who has at least one indexed chunk of a document
\* of theirs does not end in the reply that nothing relevant was found,
\* however many chunks of other users are indexed
C23_ScopeNeverStarves ==
  (userQuery # <<>> /\ userQuery[1].pc = "done" /\ userQuery[1].searched
     /\ userQuery[1].owned > 0) =>
    userQuery[1].Justification #
      "Could not find relevant information in your documents to answer this question."

\* C30: the context of a query of the per-user server holds at most five
\* chunks, each of a document uploaded by the user who asks, and it is never
\* sent empty; a user without documents is answered requires_more_info with
\* no search and no call of the model
C30_PerUserIsolation ==
  userQuery # <<>> =>
    LET q == userQuery[1]
    IN  /\ Len(q.context) <= 5
        /\ \A i \in 1..Len(q.context) : q.context[i].metadata.userId = q.user
        /\ q.llmCalls > 0 => q.context # <<>>
        /\ (q.status = 200 /\ q.userDocIds = {}) =>
              /\ q.pc = "done"
              /\ ~q.searched
              /\ q.llmCalls = 0
              /\ q.Decision = "requires_more_info"

\* user 2 was answered from five chunks while the index held a chunk of user 1
C30_Witness ==
  /\ userQuery # <<>>
  /\ userQuery[1].user = 2
  /\ userQuery[1].pc = "done"
  /\ userQuery[1].llmCalls = 1
  /\ Len(userQuery[1].context) = 5
  /\ \E i \in 1..Len(indexedDocuments) : indexedDocuments[i].metadata.userId = 1

\* C24: a search of the in-memory store for k results returns min(k, size of
\* the index) entries of the index, no entry twice, in non-increasing order
\* of their similarity to the query and, where equally similar, in the order
\* of insertion; no entry left out is more similar than an entry returned,
\* nor equally similar and inserted earlier
C24_TopKStable ==
  probe # <<>> =>
    LET p == probe[1]
        n == Len(p.index)
        sim(j) == cosineSimilarity(p.queryEmbedding, p.index[j].embedding)
        Pos(i) == CHOOSE j \in 1..n : p.index[j].metadata = p.result[i].metadata
        more(a, b) == a.n * b.d > b.n * a.d
        ordered(j1, j2) == more(sim(j1), sim(j2)) \/ (~more(sim(j2), sim(j1)) /\ j1 < j2)
        returned == {Pos(i) : i \in 1..Len(p.result)}
    IN  /\ Len(p.result) = IF p.k < n THEN p.k ELSE n
        /\ \A i \in 1..Len(p.result) :
              /\ \E j \in 1..n : p.index[j].metadata = p.result[i].metadata
              /\ p.result[i].pageContent = p.index[Pos(i)].content
        /\ \A i1, i2 \in 1..Len(p.result) : i1 < i2 => ordered(Pos(i1), Pos(i2))
        /\ \A j \in (1..n) \ returned : \A i \in 1..Len(p.result) : ordered(Pos(i), j)

\* "Aa" was asked of an index of three chunks for two results, and the two
\* equally similar chunks "Aa" and "BB" came back in the order of insertion
C24_Witness ==
  /\ probe # <<>>
  /\ probe[1].text = Aa
  /\ probe[1].k = 2
  /\ Len(probe[1].index) = 3
  /\ ~probe[1].modelOk
  /\ probe[1].index[1].embedding = probe[1].index[2].embedding
  /\ probe[1].index[1].content = Aa
  /\ probe[1].index[2].content = BB
  /\ Len(probe[1].result) = 2
  /\ probe[1].result[1].pageContent = Aa
  /\ probe[1].result[2].pageContent = BB

\* C25: the heuristic takes ageYears from the first integer that the word
\* "year" follows and policyAgeMonths from the first integer that the word
\* "month" follows: 5 and none in "5 year pune", none and 3 in "3month knee",
\* 2 and 7 in "2year 7month" (numbers are held in tenths)
C25_NumbersByUnit ==
  query.pc = "parse" =>
    /\ query.structured.ageYears =
         (IF query.text = FiveYearPune THEN <<50>>
          ELSE IF query.text = TwoYearSevenMonth THEN <<20>> ELSE <<>>)
    /\ query.structured.policyAgeMonths =
         (IF query.text = ThreeMonthKnee THEN <<30>>
          ELSE IF query.text = TwoYearSevenMonth THEN <<70>> ELSE <<>>)

\* C26: once the parser call has answered with a JSON object, every field of
\* the StructuredQuery that the object has holds the object's value, and
\* every field the object lacks holds what the heuristic extracted
C26_FieldByFieldOverride ==
  query.parser = "object" =>
    LET heuristic == basicHeuristicParse(query.text)
    IN  \A f \in {"ageYears", "ageMonths", "procedure", "location", "policyAgeMonths"} :
          query.structured[f] =
            IF query.parsed[f] = <<-101>> THEN heuristic[f] ELSE query.parsed[f]

\* for "5 year pune" the parser answered with location delhi and no ageYears:
\* the location is the parser's, the age the heuristic's
C26_Witness ==
  /\ query.parser = "object"
  /\ query.text = FiveYearPune
  /\ query.parsed.ageYears = <<-101>>
  /\ query.parsed.location = delhi
  /\ query.structured.ageYears = <<50>>
  /\ query.structured.location = delhi

\* C27: the entries of one document stand in the in-memory index in the
\* order of their chunk numbers, whatever entries of other documents stand
\* between them
C27_ChunkOrder ==
  \A i, j \in 1..Len(indexedDocuments) :
    (i < j /\ indexedDocuments[i].metadata.docId = indexedDocuments[j].metadata.docId) =>
      indexedDocuments[i].metadata.loc < indexedDocuments[j].metadata.loc

\* the second chunk of a document was indexed after the first chunk of
\* another document, which was indexed after its first chunk
C27_Witness ==
  /\ Len(indexedDocuments) >= 3
  /\ indexedDocuments[1].metadata.docId = indexedDocuments[3].metadata.docId
  /\ indexedDocuments[2].metadata.docId # indexedDocuments[1].metadata.docId
  /\ indexedDocuments[1].metadata.loc = 1
  /\ indexedDocuments[3].metadata.loc = 2

\* C28: whenever no upload is between its start and its reply, every entry
\* of the in-memory index belongs to a document of the registry
C28_NoOrphans ==
  (\A r \in Requests : uploads[r].pc \in {"idle", "done"}) =>
    \A i \in 1..Len(indexedDocuments) :
      indexedDocuments[i].metadata.docId \in
        {documentRegistry[d].id : d \in 1..Len(documentRegistry)}

====
